---- MODULE Spec2Model ----
(***************************************************************************)
(* Dependency review action: the policy evaluation pipeline of run() in    *)
(* main.ts, the check-run sink it posts to (addCheck) and the two pure     *)
(* functions it imports, filterChangesBySeverity and                       *)
(* getDeniedLicenseChanges.                                                *)
(*                                                                         *)
(* main.ts holds two successive texts of run(); the model follows the      *)
(* later one (lines 235-331), which posts both the vulnerability and the   *)
(* license check.  run() is cut into atomic steps at its awaits: the call  *)
(* of dependencyGraph.compare and the two calls of checks.addCheck.        *)
(* PullRequestSchema.parse and readConfig are taken to succeed: the        *)
(* payload of a pull_request event and the configuration are valid.        *)
(*                                                                         *)
(* filterChangesBySeverity and getDeniedLicenseChanges are modelled from   *)
(* their contracts, sections 4.1 and 4.3 of the specification.  Policy     *)
(* lists are sets; an absent list and an empty list are both {}.           *)
(***************************************************************************)
EXTENDS Naturals, Sequences, FiniteSets

VARIABLES
    eventName,        \* github.context.eventName
    pc,               \* position of run(): the await it is suspended at
    compareCalls,     \* number of calls of dependencyGraph.compare
    changes,          \* const changes: the provider's answer
    config,           \* readConfig(): fail_on_severity, allow_licenses, deny_licenses
    filteredChanges,  \* result of filterChangesBySeverity(minSeverity, changes)
    addedChanges,     \* const addedChanges
    failed,           \* let failed
    licenseErrors,    \* first component of getDeniedLicenseChanges(changes, licenses)
    unknownLicenses,  \* second component of getDeniedLicenseChanges(changes, licenses)
    setFailedCalls,   \* messages passed to core.setFailed, in call order
    checkCalls,       \* calls of checks.addCheck issued so far, in call order
    checkRuns,        \* check runs created by octo.rest.checks.create
    fatal,            \* the error caught by run()'s catch block, or NoError
    thrownAt,         \* the position of run() at which that error was thrown
    body,             \* let body: the report text last rendered, line by line
    checkIdVulnerability,  \* check.ts: let checkIdVulnerability
    checkIdLicense         \* check.ts: let checkIdLicense

vars == <<eventName, pc, compareCalls, changes, config, filteredChanges,
          addedChanges, failed, licenseErrors, unknownLicenses,
          setFailedCalls, checkCalls, checkRuns, fatal, thrownAt,
          body, checkIdVulnerability, checkIdLicense>>

----------------------------------------------------------------------------
(* Bounds of the model *)

\* longest change list the provider returns to run()
MaxChanges == 2
\* longest change list given to the severity filter alone
MaxFilterChanges == 3
\* most vulnerabilities, summed over a change list given to the severity filter
MaxVulns == 3
\* longest change list given to the license classifier alone
MaxLicenseChanges == 3
\* longest change list given to a report renderer alone
MaxReportChanges == 3
\* most check runs other workflows have already created on the commit
MaxExistingChecks == 2

----------------------------------------------------------------------------
(* Data model: Change, Vulnerability, Policy *)

\* license: null
NULL == "null"
\* fail_on_severity: undefined
NONE == "undefined"

Severity == {"low", "moderate", "high", "critical"}

ChangeType == {"added", "removed"}

LicenseIds == {"MIT", "GPL-3.0"}

Vulnerability(sev) == [severity |-> sev]

Change(m, t, n, v, l, vs) ==
    [manifest |-> m, change_type |-> t, name |-> n, version |-> v,
     license |-> l, vulnerabilities |-> vs]

\* all sequences over S of length at most n
SeqUpTo(S, n) == UNION {[1..k -> S] : k \in 0..n}

\* the elements of a sequence
Range(s) == {s[i] : i \in 1..Len(s)}

----------------------------------------------------------------------------
(* Severity filter (section 4.1) *)

\* explicit ordinal ranking: low < moderate < high < critical
SeverityRank(sev) ==
    CASE sev = "low" -> 1
      [] sev = "moderate" -> 2
      [] sev = "high" -> 3
      [] sev = "critical" -> 4

\* mutant: a vulnerability exactly at the threshold is dropped
SeverityAbove(sev, minSeverity) == SeverityRank(sev) > SeverityRank(minSeverity)

\* a vulnerability qualifies when its severity >= minSeverity
SeverityAtLeast(sev, minSeverity) == SeverityRank(sev) >= SeverityRank(minSeverity)

\* the vulnerabilities of one change narrowed to the qualifying ones, in order
RECURSIVE narrowVulnerabilities(_, _)
narrowVulnerabilities(minSeverity, vulns) ==
    IF vulns = <<>> THEN <<>>
    ELSE IF SeverityAtLeast(Head(vulns).severity, minSeverity)
         THEN <<Head(vulns)>> \o narrowVulnerabilities(minSeverity, Tail(vulns))
         ELSE narrowVulnerabilities(minSeverity, Tail(vulns))

RECURSIVE filterChangesBySeverity(_, _)
filterChangesBySeverity(minSeverity, cs) ==
    IF minSeverity = NONE THEN cs
    ELSE IF cs = <<>> THEN <<>>
    ELSE LET change == Head(cs)
             rest == filterChangesBySeverity(minSeverity, Tail(cs))
             kept == narrowVulnerabilities(minSeverity, change.vulnerabilities)
         IN  IF change.vulnerabilities = <<>> THEN <<change>> \o rest
             ELSE IF kept = <<>> THEN rest
             ELSE <<[change EXCEPT !.vulnerabilities = kept]>> \o rest

----------------------------------------------------------------------------
(* Inputs of the severity filter *)

FilterVulnerabilities == {Vulnerability(s) : s \in Severity}

\* the changes carrying at most v vulnerabilities
FilterChange(v) == {Change("package.json", "added", "pkg", "1.0.0", "MIT", vs) :
                       vs \in SeqUpTo(FilterVulnerabilities, v)}

\* the change lists of at most n changes carrying at most v vulnerabilities in all
RECURSIVE FilterLists(_, _)
FilterLists(n, v) ==
    IF n = 0 THEN {<<>>}
    ELSE {<<>>} \cup
         UNION {{<<c>> \o rest : rest \in FilterLists(n - 1, v - Len(c.vulnerabilities))} :
                   c \in FilterChange(v)}

FilterInputs == FilterLists(MaxFilterChanges, MaxVulns)

Thresholds == Severity \cup {NONE}

NoError == [class |-> "none", status |-> 0, message |-> ""]

NoConfig == [fail_on_severity |-> NONE, allow_licenses |-> {}, deny_licenses |-> {}]

InitFilter ==
    /\ eventName = "pull_request"
    /\ pc = "filter"
    /\ compareCalls = 0
    /\ changes \in FilterInputs
    /\ config \in {[NoConfig EXCEPT !.fail_on_severity = t] : t \in Thresholds}
    /\ filteredChanges = <<>>
    /\ addedChanges = <<>>
    /\ failed = FALSE
    /\ licenseErrors = <<>>
    /\ unknownLicenses = <<>>
    /\ setFailedCalls = <<>>
    /\ checkCalls = <<>>
    /\ checkRuns = <<>>
    /\ fatal = NoError
    /\ thrownAt = "none"
    /\ body = <<>>
    /\ checkIdVulnerability = NONE
    /\ checkIdLicense = NONE

\* const filteredChanges = filterChangesBySeverity(minSeverity as Severity, changes)
ApplyFilter ==
    /\ pc = "filter"
    /\ filteredChanges' = filterChangesBySeverity(config.fail_on_severity, changes)
    /\ pc' = "filtered"
    /\ UNCHANGED <<eventName, compareCalls, changes, config, addedChanges, failed,
                   licenseErrors, unknownLicenses, setFailedCalls, checkCalls,
                   checkRuns, fatal, thrownAt,
                   body, checkIdVulnerability, checkIdLicense>>

NextFilter == ApplyFilter

SpecFilter == InitFilter /\ [][NextFilter]_vars

----------------------------------------------------------------------------
(* License classifier (section 4.3) *)

\* mutant: removed Changes are classified like added ones
classifyLicenseAnyType(change, licenses) ==
    IF change.license = NULL THEN "unknown"
    ELSE IF licenses.deny # {} /\ change.license \in licenses.deny THEN "denied"
    ELSE IF licenses.allow # {} /\ change.license \notin licenses.allow THEN "denied"
    ELSE "compliant"

\* the class of one Change under a policy {allow, deny}
classifyLicense(change, licenses) ==
    IF change.change_type # "added" THEN "ignored"
    ELSE IF change.license = NULL THEN "unknown"
    ELSE IF licenses.deny # {} /\ change.license \in licenses.deny THEN "denied"
    ELSE IF licenses.allow # {} /\ change.license \notin licenses.allow THEN "denied"
    ELSE "compliant"

\* the Changes of cs of class cls, in input order
RECURSIVE changesOfClass(_, _, _)
changesOfClass(cs, licenses, cls) ==
    IF cs = <<>> THEN <<>>
    ELSE IF classifyLicense(Head(cs), licenses) = cls
         THEN <<Head(cs)>> \o changesOfClass(Tail(cs), licenses, cls)
         ELSE changesOfClass(Tail(cs), licenses, cls)

\* the pair (denied, unknown)
getDeniedLicenseChanges(cs, licenses) ==
    <<changesOfClass(cs, licenses, "denied"), changesOfClass(cs, licenses, "unknown")>>

\* mutant: the allow list and the deny list are exchanged
licensesSwapped(cfg) == [allow |-> cfg.deny_licenses, deny |-> cfg.allow_licenses]

\* const licenses = {allow: config.allow_licenses, deny: config.deny_licenses}
licensesOf(cfg) == [allow |-> cfg.allow_licenses, deny |-> cfg.deny_licenses]

\* mutant: the pair is destructured in the wrong order
licenseErrorsSwapped(pair) == pair[2]

\* const [licenseErrors, unknownLicenses] = ...: the first component
licenseErrorsOf(pair) == pair[1]

\* mutant: the unknown list is taken from the denied component
unknownLicensesFromDenied(pair) == pair[1]

\* const [licenseErrors, unknownLicenses] = ...: the second component
unknownLicensesOf(pair) == pair[2]

----------------------------------------------------------------------------
(* Inputs of the license classifier *)

Licenses == LicenseIds \cup {NULL}

LicenseChange == {Change("package.json", t, "pkg", "1.0.0", l, <<>>) :
                     t \in ChangeType, l \in Licenses}

LicenseInputs == SeqUpTo(LicenseChange, MaxLicenseChanges)

Policies == {[NoConfig EXCEPT !.allow_licenses = a, !.deny_licenses = d] :
                a \in SUBSET LicenseIds, d \in SUBSET LicenseIds}

InitLicenses ==
    /\ eventName = "pull_request"
    /\ pc = "classify"
    /\ compareCalls = 0
    /\ changes \in LicenseInputs
    /\ config \in Policies
    /\ filteredChanges = <<>>
    /\ addedChanges = <<>>
    /\ failed = FALSE
    /\ licenseErrors = <<>>
    /\ unknownLicenses = <<>>
    /\ setFailedCalls = <<>>
    /\ checkCalls = <<>>
    /\ checkRuns = <<>>
    /\ fatal = NoError
    /\ thrownAt = "none"
    /\ body = <<>>
    /\ checkIdVulnerability = NONE
    /\ checkIdLicense = NONE

\* const [licenseErrors, unknownLicenses] = getDeniedLicenseChanges(changes, licenses)
ApplyLicenses ==
    /\ pc = "classify"
    /\ LET pair == getDeniedLicenseChanges(changes, licensesOf(config))
       IN  /\ licenseErrors' = licenseErrorsOf(pair)
           /\ unknownLicenses' = unknownLicensesOf(pair)
    /\ pc' = "classified"
    /\ UNCHANGED <<eventName, compareCalls, changes, config, filteredChanges,
                   addedChanges, failed, setFailedCalls, checkCalls, checkRuns,
                   fatal, thrownAt,
                   body, checkIdVulnerability, checkIdLicense>>

NextLicenses == ApplyLicenses

SpecLicenses == InitLicenses /\ [][NextLicenses]_vars

----------------------------------------------------------------------------
(* run(): src/src/main.ts, lines 235-331, and the sink checks.addCheck *)

\* throw new Error(`This run was triggered by the "..." event, which is unsupported. ...`)
UnsupportedEventError ==
    [class |-> "Error", status |-> 0, message |-> "unsupported event"]

\* a RequestError of @octokit/request-error with the given HTTP status
RequestError(st) == [class |-> "RequestError", status |-> st, message |-> "request failed"]

\* any other instance of Error
OtherError == [class |-> "Error", status |-> 0, message |-> "error message"]

\* a thrown value that is no instance of Error
NonError == [class |-> "NonError", status |-> 0, message |-> ""]

\* what dependencyGraph.compare can reject with
ProviderErrors == {RequestError(404), RequestError(403), RequestError(500), OtherError, NonError}

\* what octo.rest.checks.create can reject with
SinkErrors == {RequestError(404), RequestError(403), RequestError(500)}

\* mutant: the status of a RequestError is not looked at
failureMessageWithoutStatus(error) ==
    IF error.class \in {"Error", "RequestError"}
    THEN error.message
    ELSE "Unexpected fatal error"

\* the message the catch block passes to core.setFailed
failureMessage(error) ==
    IF error.class = "RequestError" /\ error.status = 404
    THEN "Dependency review could not obtain dependency data"
    ELSE IF error.class = "RequestError" /\ error.status = 403
    THEN "Dependency review is not supported on this repository"
    ELSE IF error.class \in {"Error", "RequestError"}
    THEN error.message
    ELSE "Unexpected fatal error"

IncompatibleLicenses == "Dependency review detected incompatible licenses."

VulnerablePackages == "Dependency review detected vulnerable packages."

\* catch (error) {...}: one core.setFailed, then run() returns
Catch(error) ==
    /\ setFailedCalls' = Append(setFailedCalls, failureMessage(error))
    /\ fatal' = error
    /\ thrownAt' = pc
    /\ pc' = "done"

\* mutant: removed Changes are selected too
vulnerableOfAnyType(cs) == SelectSeq(cs, LAMBDA c : Len(c.vulnerabilities) > 0)

\* .filter(change => change.change_type === 'added' &&
\*         change.vulnerabilities !== undefined && change.vulnerabilities.length > 0)
RECURSIVE addedWithVulnerabilities(_)
addedWithVulnerabilities(cs) ==
    IF cs = <<>> THEN <<>>
    ELSE IF Head(cs).change_type = "added" /\ Len(Head(cs).vulnerabilities) > 0
         THEN <<Head(cs)>> \o addedWithVulnerabilities(Tail(cs))
         ELSE addedWithVulnerabilities(Tail(cs))

\* the arguments of one call of checks.addCheck, with the lists its body is rendered from
CheckCall(report, checkName, failedFlag, errors, unknown) ==
    [report |-> report, checkName |-> checkName, failed |-> failedFlag,
     changes |-> errors, unknown |-> unknown]

\* mutant: the conclusion is chosen the wrong way round
addCheckInverted(checkName, failedFlag) ==
    [name |-> checkName, status |-> "completed",
     conclusion |-> IF failedFlag THEN "success" ELSE "failure", title |-> checkName]

\* addCheck: the check run octo.rest.checks.create is asked to create
addCheck(checkName, failedFlag) ==
    [name |-> checkName, status |-> "completed",
     conclusion |-> IF failedFlag THEN "failure" ELSE "success", title |-> checkName]

----------------------------------------------------------------------------
(* Report renderers: createVulnerabilitiesCheck and createLicensesCheck *)
(* A body is the sequence of the lines appended to it.                   *)

\* new Set(changes.flatMap(c => c.manifest)): the distinct manifests in the
\* order of their first occurrence, which is the order a Set iterates in
RECURSIVE getManifestsFrom(_, _)
getManifestsFrom(cs, seen) ==
    IF cs = <<>> THEN seen
    ELSE IF \E i \in 1..Len(seen) : seen[i] = Head(cs).manifest
         THEN getManifestsFrom(Tail(cs), seen)
         ELSE getManifestsFrom(Tail(cs), Append(seen, Head(cs).manifest))

getManifests(cs) == getManifestsFrom(cs, <<>>)

\* mutant: every Change is listed under every manifest
ofAnyManifest(cs, manifest) == cs

\* addedPackages.filter(pkg => pkg.manifest === manifest)
RECURSIVE ofManifest(_, _)
ofManifest(cs, manifest) ==
    IF cs = <<>> THEN <<>>
    ELSE IF Head(cs).manifest = manifest
         THEN <<Head(cs)>> \o ofManifest(Tail(cs), manifest)
         ELSE ofManifest(Tail(cs), manifest)

\* one table row of the vulnerability report; package and version are "" when
\* the row starts with the empty cells '|||'
VulnerabilityRow(package, version, vuln) ==
    [kind |-> "row", package |-> package, version |-> version,
     severity |-> vuln.severity]

\* for (const vuln of change.vulnerabilities) {...}: the rows of one Change
RECURSIVE vulnerabilityRows(_, _, _, _)
vulnerabilityRows(change, vulns, previous_package, previous_version) ==
    IF vulns = <<>> THEN <<>>
    ELSE LET sameAsPrevious ==
                 previous_package = change.name /\ previous_version = change.version
             row == IF ~sameAsPrevious
                    THEN VulnerabilityRow(change.name, change.version, Head(vulns))
                    ELSE VulnerabilityRow("", "", Head(vulns))
         IN  <<row>> \o vulnerabilityRows(change, Tail(vulns), change.name, change.version)

\* for (const change of addedPackages.filter(...)) {let previous_package = '' ...}
RECURSIVE vulnerabilityTable(_)
vulnerabilityTable(cs) ==
    IF cs = <<>> THEN <<>>
    ELSE vulnerabilityRows(Head(cs), Head(cs).vulnerabilities, "", "")
             \o vulnerabilityTable(Tail(cs))

\* for (const manifest of manifests) {...}: a heading and a table per manifest
RECURSIVE vulnerabilitySections(_, _)
vulnerabilitySections(manifests, addedPackages) ==
    IF manifests = <<>> THEN <<>>
    ELSE <<[kind |-> "manifest", manifest |-> Head(manifests)]>>
             \o vulnerabilityTable(ofManifest(addedPackages, Head(manifests)))
             \o vulnerabilitySections(Tail(manifests), addedPackages)

\* the body createVulnerabilitiesCheck passes to checks.addCheck
createVulnerabilitiesCheck(addedPackages, severity) ==
    (IF severity # NONE THEN <<[kind |-> "filtered by", severity |-> severity]>> ELSE <<>>)
        \o (IF Len(addedPackages) > 0 THEN <<[kind |-> "heading", text |-> "Added known Vulnerabilities"]>> ELSE <<>>)
        \o vulnerabilitySections(getManifests(addedPackages), addedPackages)

\* one table row of the license report
LicenseRow(change) ==
    [kind |-> "row", package |-> change.name, version |-> change.version,
     license |-> change.license]

RECURSIVE licenseTable(_)
licenseTable(cs) ==
    IF cs = <<>> THEN <<>>
    ELSE <<LicenseRow(Head(cs))>> \o licenseTable(Tail(cs))

RECURSIVE licenseSections(_, _)
licenseSections(manifests, cs) ==
    IF manifests = <<>> THEN <<>>
    ELSE <<[kind |-> "manifest", manifest |-> Head(manifests)]>>
             \o licenseTable(ofManifest(cs, Head(manifests)))
             \o licenseSections(Tail(manifests), cs)

\* the body createLicensesCheck passes to checks.addCheck
createLicensesCheck(errors, unknownLicensesErrors, cfg) ==
    (IF Len(errors) > 0
     THEN (IF cfg.allow_licenses # {}
           THEN <<[kind |-> "allowed", licenses |-> cfg.allow_licenses]>> ELSE <<>>)
              \o (IF cfg.deny_licenses # {}
                  THEN <<[kind |-> "denied", licenses |-> cfg.deny_licenses]>> ELSE <<>>)
              \o <<[kind |-> "heading", text |-> "Incompatible Licenses"]>>
              \o licenseSections(getManifests(errors), errors)
     ELSE <<>>)
        \o (IF Len(unknownLicensesErrors) > 0
            THEN <<[kind |-> "heading", text |-> "Unknown Licenses"]>>
                     \o licenseSections(getManifests(unknownLicensesErrors),
                                        unknownLicensesErrors)
            ELSE <<>>)

----------------------------------------------------------------------------
(* Inputs of run() *)

EventNames == {"pull_request", "push", "pull_request_target"}

RunVulnerabilityLists ==
    {<<>>, <<Vulnerability("low")>>, <<Vulnerability("low"), Vulnerability("critical")>>}

RunChange == {Change("package.json", t, "pkg", "1.0.0", l, vs) :
                 t \in ChangeType, l \in Licenses, vs \in RunVulnerabilityLists}

RunInputs == SeqUpTo(RunChange, MaxChanges)

RunPolicies ==
    {<<{}, {}>>, <<{"MIT"}, {}>>, <<{}, {"GPL-3.0"}>>, <<{"MIT", "GPL-3.0"}, {"GPL-3.0"}>>}

RunConfigs ==
    {[fail_on_severity |-> t, allow_licenses |-> p[1], deny_licenses |-> p[2]] :
        t \in Thresholds, p \in RunPolicies}

Init ==
    /\ eventName \in EventNames
    /\ pc = "start"
    /\ compareCalls = 0
    /\ changes = <<>>
    /\ config = NoConfig
    /\ filteredChanges = <<>>
    /\ addedChanges = <<>>
    /\ failed = FALSE
    /\ licenseErrors = <<>>
    /\ unknownLicenses = <<>>
    /\ setFailedCalls = <<>>
    /\ checkCalls = <<>>
    /\ checkRuns = <<>>
    /\ fatal = NoError
    /\ thrownAt = "none"
    /\ body = <<>>
    /\ checkIdVulnerability = NONE
    /\ checkIdLicense = NONE

\* mutant: the provider is called before the event is looked at
RunCompareFirst ==
    /\ pc = "start"
    /\ compareCalls' = compareCalls + 1
    /\ IF eventName # "pull_request"
       THEN Catch(UnsupportedEventError)
       ELSE pc' = "compare" /\ UNCHANGED <<setFailedCalls, fatal, thrownAt>>
    /\ UNCHANGED <<eventName, changes, config, filteredChanges, addedChanges, failed,
                   licenseErrors, unknownLicenses, checkCalls, checkRuns,
                   body, checkIdVulnerability, checkIdLicense>>

\* lines 236-252: the event test, then the call of dependencyGraph.compare
Run ==
    /\ pc = "start"
    /\ IF eventName # "pull_request"
       THEN /\ Catch(UnsupportedEventError)
            /\ UNCHANGED compareCalls
       ELSE /\ compareCalls' = compareCalls + 1
            /\ pc' = "compare"
            /\ UNCHANGED <<setFailedCalls, fatal, thrownAt>>
    /\ UNCHANGED <<eventName, changes, config, filteredChanges, addedChanges, failed,
                   licenseErrors, unknownLicenses, checkCalls, checkRuns,
                   body, checkIdVulnerability, checkIdLicense>>

\* lines 247-284: compare resolves; readConfig, the severity filter, the selection
\* of the added vulnerable Changes, and the call of createVulnerabilitiesCheck,
\* which renders the body and calls checks.addCheck
CompareResolves ==
    /\ pc = "compare"
    /\ \E cs \in RunInputs, cfg \in RunConfigs :
           /\ changes' = cs
           /\ config' = cfg
           /\ filteredChanges' = filterChangesBySeverity(cfg.fail_on_severity, cs)
    /\ addedChanges' = addedWithVulnerabilities(filteredChanges')
    /\ failed' = (Len(addedChanges') > 0)
    /\ checkCalls' = Append(checkCalls,
           CheckCall("vulnerabilities", "Dependency Review Vulnerabilities",
                     failed', addedChanges', <<>>))
    /\ body' = createVulnerabilitiesCheck(addedChanges', config'.fail_on_severity)
    /\ pc' = "vulnerabilitiesCheck"
    /\ UNCHANGED <<eventName, compareCalls, licenseErrors, unknownLicenses,
                   setFailedCalls, checkRuns, fatal, thrownAt,
                   checkIdVulnerability, checkIdLicense>>

\* lines 247-252 and 314-330: compare rejects
CompareRejects ==
    /\ pc = "compare"
    /\ \E error \in ProviderErrors : Catch(error)
    /\ UNCHANGED <<eventName, compareCalls, changes, config, filteredChanges,
                   addedChanges, failed, licenseErrors, unknownLicenses,
                   checkCalls, checkRuns,
                   body, checkIdVulnerability, checkIdLicense>>

\* mutant: the license report is posted only when no vulnerable package was found
VulnerabilitiesCheckResolvesStopsOnFailure ==
    /\ pc = "vulnerabilitiesCheck"
    /\ checkRuns' = Append(checkRuns,
           addCheck(checkCalls[Len(checkCalls)].checkName, checkCalls[Len(checkCalls)].failed))
    /\ LET pair == getDeniedLicenseChanges(changes, licensesOf(config))
       IN  /\ licenseErrors' = licenseErrorsOf(pair)
           /\ unknownLicenses' = unknownLicensesOf(pair)
    /\ setFailedCalls' =
           IF Len(licenseErrors') > 0
           THEN Append(setFailedCalls, IncompatibleLicenses)
           ELSE setFailedCalls
    /\ IF failed
       THEN /\ pc' = "done"
            /\ UNCHANGED <<checkCalls, body>>
       ELSE /\ checkCalls' = Append(checkCalls,
                   CheckCall("licenses", "Dependency Review Licenses",
                             Len(licenseErrors') > 0, licenseErrors', unknownLicenses'))
            /\ body' = createLicensesCheck(licenseErrors', unknownLicenses', config)
            /\ pc' = "licensesCheck"
    /\ UNCHANGED <<eventName, compareCalls, changes, config, filteredChanges,
                   addedChanges, failed, fatal, thrownAt,
                   checkIdVulnerability, checkIdLicense>>

\* lines 278-303 and addCheck: the vulnerability check run is created; then the
\* license classifier, core.setFailed when a license is denied, and the call of
\* createLicensesCheck, which calls checks.addCheck
VulnerabilitiesCheckResolves ==
    /\ pc = "vulnerabilitiesCheck"
    /\ checkRuns' = Append(checkRuns,
           addCheck(checkCalls[Len(checkCalls)].checkName, checkCalls[Len(checkCalls)].failed))
    /\ LET pair == getDeniedLicenseChanges(changes, licensesOf(config))
       IN  /\ licenseErrors' = licenseErrorsOf(pair)
           /\ unknownLicenses' = unknownLicensesOf(pair)
    /\ setFailedCalls' =
           IF Len(licenseErrors') > 0
           THEN Append(setFailedCalls, IncompatibleLicenses)
           ELSE setFailedCalls
    /\ checkCalls' = Append(checkCalls,
           CheckCall("licenses", "Dependency Review Licenses",
                     Len(licenseErrors') > 0, licenseErrors', unknownLicenses'))
    /\ body' = createLicensesCheck(licenseErrors', unknownLicenses', config)
    /\ pc' = "licensesCheck"
    /\ UNCHANGED <<eventName, compareCalls, changes, config, filteredChanges,
                   addedChanges, failed, fatal, thrownAt,
                   checkIdVulnerability, checkIdLicense>>

\* lines 278-284 and 314-330: the creation of the vulnerability check run rejects
VulnerabilitiesCheckRejects ==
    /\ pc = "vulnerabilitiesCheck"
    /\ \E error \in SinkErrors : Catch(error)
    /\ UNCHANGED <<eventName, compareCalls, changes, config, filteredChanges,
                   addedChanges, failed, licenseErrors, unknownLicenses,
                   checkCalls, checkRuns,
                   body, checkIdVulnerability, checkIdLicense>>

\* mutant: unknown licenses fail the run too
LicensesCheckResolvesFailsOnUnknown ==
    /\ pc = "licensesCheck"
    /\ checkRuns' = Append(checkRuns,
           addCheck(checkCalls[Len(checkCalls)].checkName, checkCalls[Len(checkCalls)].failed))
    /\ setFailedCalls' =
           IF failed \/ Len(unknownLicenses) > 0
           THEN Append(setFailedCalls, VulnerablePackages)
           ELSE setFailedCalls
    /\ pc' = "done"
    /\ UNCHANGED <<eventName, compareCalls, changes, config, filteredChanges,
                   addedChanges, failed, licenseErrors, unknownLicenses,
                   checkCalls, fatal, thrownAt,
                   body, checkIdVulnerability, checkIdLicense>>

\* lines 296-313 and addCheck: the license check run is created; then
\* printNullLicenses and core.setFailed when a vulnerable package was found
LicensesCheckResolves ==
    /\ pc = "licensesCheck"
    /\ checkRuns' = Append(checkRuns,
           addCheck(checkCalls[Len(checkCalls)].checkName, checkCalls[Len(checkCalls)].failed))
    /\ setFailedCalls' =
           IF failed
           THEN Append(setFailedCalls, VulnerablePackages)
           ELSE setFailedCalls
    /\ pc' = "done"
    /\ UNCHANGED <<eventName, compareCalls, changes, config, filteredChanges,
                   addedChanges, failed, licenseErrors, unknownLicenses,
                   checkCalls, fatal, thrownAt,
                   body, checkIdVulnerability, checkIdLicense>>

\* lines 296-303 and 314-330: the creation of the license check run rejects
LicensesCheckRejects ==
    /\ pc = "licensesCheck"
    /\ \E error \in SinkErrors : Catch(error)
    /\ UNCHANGED <<eventName, compareCalls, changes, config, filteredChanges,
                   addedChanges, failed, licenseErrors, unknownLicenses,
                   checkCalls, checkRuns,
                   body, checkIdVulnerability, checkIdLicense>>

Next ==
    \/ Run
    \/ CompareResolves
    \/ CompareRejects
    \/ VulnerabilitiesCheckResolves
    \/ VulnerabilitiesCheckRejects
    \/ LicensesCheckResolves
    \/ LicensesCheckRejects

Spec == Init /\ [][Next]_vars

----------------------------------------------------------------------------
(* Inputs of the report renderers *)

ReportManifests == {"package.json", "requirements.txt"}

\* (name, version) pairs: one name in two versions, one version under two names
ReportPackages == {<<"a", "1.0.0">>, <<"a", "2.0.0">>, <<"b", "1.0.0">>}

ReportVulnerabilityLists ==
    {<<Vulnerability("low")>>, <<Vulnerability("high"), Vulnerability("critical")>>}

\* added Changes with at least one vulnerability, as run() selects them
ReportChange == {Change(m, "added", p[1], p[2], l, vs) :
                    m \in ReportManifests, p \in ReportPackages,
                    l \in {"MIT", NULL}, vs \in ReportVulnerabilityLists}

ReportInputs == SeqUpTo(ReportChange, MaxReportChanges)

ReportConfig == [fail_on_severity |-> "low", allow_licenses |-> {}, deny_licenses |-> {"MIT"}]

InitReport ==
    /\ eventName = "pull_request"
    /\ pc = "render"
    /\ compareCalls = 0
    /\ changes \in ReportInputs
    /\ config = ReportConfig
    /\ filteredChanges = changes
    /\ addedChanges = changes
    /\ failed = (Len(changes) > 0)
    /\ licenseErrors = SelectSeq(changes, LAMBDA c : c.license # NULL)
    /\ unknownLicenses = SelectSeq(changes, LAMBDA c : c.license = NULL)
    /\ setFailedCalls = <<>>
    /\ checkCalls = <<>>
    /\ checkRuns = <<>>
    /\ fatal = NoError
    /\ thrownAt = "none"
    /\ body = <<>>
    /\ checkIdVulnerability = NONE
    /\ checkIdLicense = NONE

\* createVulnerabilitiesCheck(addedChanges, sha, checkName, failed, minSeverity)
\* up to its call of checks.addCheck
RenderVulnerabilities ==
    /\ pc = "render"
    /\ body' = createVulnerabilitiesCheck(addedChanges, config.fail_on_severity)
    /\ checkCalls' = Append(checkCalls,
           CheckCall("vulnerabilities", "Dependency Review Vulnerabilities",
                     failed, addedChanges, <<>>))
    /\ pc' = "vulnerabilitiesCheck"
    /\ UNCHANGED <<eventName, compareCalls, changes, config, filteredChanges,
                   addedChanges, failed, licenseErrors, unknownLicenses,
                   setFailedCalls, checkRuns, fatal, thrownAt,
                   checkIdVulnerability, checkIdLicense>>

\* createLicensesCheck(licenseErrors, unknownLicenses, sha, checkName, failed, config)
\* up to its call of checks.addCheck
RenderLicenses ==
    /\ pc = "render"
    /\ body' = createLicensesCheck(licenseErrors, unknownLicenses, config)
    /\ checkCalls' = Append(checkCalls,
           CheckCall("licenses", "Dependency Review Licenses",
                     Len(licenseErrors) > 0, licenseErrors, unknownLicenses))
    /\ pc' = "licensesCheck"
    /\ UNCHANGED <<eventName, compareCalls, changes, config, filteredChanges,
                   addedChanges, failed, licenseErrors, unknownLicenses,
                   setFailedCalls, checkRuns, fatal, thrownAt,
                   checkIdVulnerability, checkIdLicense>>

NextReport ==
    \/ RenderVulnerabilities
    \/ RenderLicenses

SpecReport == InitReport /\ [][NextReport]_vars

----------------------------------------------------------------------------
(* The two-phase check protocol: initChecks, then the two report functions *)
(* checkRuns is the store of the checks service; a check run's id is its   *)
(* position in the store.                                                  *)

\* a check run some other workflow created on the commit
ExistingCheck == [name |-> "build", status |-> "completed", conclusion |-> "success", title |-> "build"]

ExistingChecks == UNION {[1..n -> {ExistingCheck}] : n \in 0..MaxExistingChecks}

CheckNames == {NONE, "Custom Review"}

ChecksConfig(checkName) ==
    [fail_on_severity |-> NONE, allow_licenses |-> {}, deny_licenses |-> {"GPL-3.0"},
     check_name_vulnerability |-> checkName]

ChecksVulnerable == Change("package.json", "added", "a", "1.0.0", "MIT", <<Vulnerability("high")>>)

ChecksDenied == Change("package.json", "added", "b", "1.0.0", "GPL-3.0", <<>>)

\* createCheck: the check run octo.rest.checks.create is asked to create
createCheck(checkName) ==
    [name |-> checkName, status |-> "in_progress", conclusion |-> NONE, title |-> NONE]

\* updateCheck: the store after its request is accepted.  The request is
\* octo.rest.checks.create, which adds a check run and modifies none; the id
\* it carries is no parameter of that route, and it carries no name.
updateCheck(runs, id, title, failedFlag) ==
    Append(runs, [name |-> NONE, status |-> "completed",
                  conclusion |-> IF failedFlag THEN "failure" ELSE "success",
                  title |-> title])

\* the body check.ts's createVulnerabilitiesCheck passes to updateCheck
check_createVulnerabilitiesCheck(addedPackages, severity) ==
    <<[kind |-> "heading", text |-> "Dependency Review"],
      [kind |-> "found", count |-> Len(addedPackages)]>>
        \o (IF Len(addedPackages) > 0
            THEN <<[kind |-> "heading", text |-> "Vulnerabilities"]>>
                     \o (IF severity # NONE
                         THEN <<[kind |-> "filtered by", severity |-> severity]>> ELSE <<>>)
            ELSE <<>>)
        \o vulnerabilitySections(getManifests(addedPackages), addedPackages)

InitChecks ==
    /\ eventName = "pull_request"
    /\ pc = "initChecks"
    /\ compareCalls = 0
    /\ addedChanges \in {<<>>, <<ChecksVulnerable>>}
    /\ licenseErrors \in {<<>>, <<ChecksDenied>>}
    /\ unknownLicenses = <<>>
    /\ changes = addedChanges \o licenseErrors
    /\ filteredChanges = changes
    /\ \E n \in CheckNames : config = ChecksConfig(n)
    /\ failed = (Len(addedChanges) > 0)
    /\ setFailedCalls = <<>>
    /\ checkCalls = <<>>
    /\ checkRuns \in ExistingChecks
    /\ fatal = NoError
    /\ thrownAt = "none"
    /\ body = <<>>
    /\ checkIdVulnerability = NONE
    /\ checkIdLicense = NONE

\* initChecks: checkIdVulnerability = await createCheck(...)
InitChecksVulnerability ==
    /\ pc = "initChecks"
    /\ checkRuns' = Append(checkRuns,
           createCheck(IF config.check_name_vulnerability # NONE
                       THEN config.check_name_vulnerability
                       ELSE "Dependency Review Vulnerabilities"))
    /\ checkIdVulnerability' = Len(checkRuns')
    /\ pc' = "initChecksLicense"
    /\ UNCHANGED <<eventName, compareCalls, changes, config, filteredChanges,
                   addedChanges, failed, licenseErrors, unknownLicenses,
                   setFailedCalls, checkCalls, fatal, thrownAt, body, checkIdLicense>>

\* initChecks: checkIdLicense = await createCheck(...); the name is taken from
\* config.check_name_vulnerability here too
InitChecksLicense ==
    /\ pc = "initChecksLicense"
    /\ checkRuns' = Append(checkRuns,
           createCheck(IF config.check_name_vulnerability # NONE
                       THEN config.check_name_vulnerability
                       ELSE "Dependency Review Licenses"))
    /\ checkIdLicense' = Len(checkRuns')
    /\ pc' = "reports"
    /\ UNCHANGED <<eventName, compareCalls, changes, config, filteredChanges,
                   addedChanges, failed, licenseErrors, unknownLicenses,
                   setFailedCalls, checkCalls, fatal, thrownAt, body,
                   checkIdVulnerability>>

\* one of the requests of initChecks is rejected; initChecks rejects with it
InitChecksRejects ==
    /\ pc \in {"initChecks", "initChecksLicense"}
    /\ \E error \in SinkErrors : fatal' = error
    /\ thrownAt' = pc
    /\ pc' = "done"
    /\ UNCHANGED <<eventName, compareCalls, changes, config, filteredChanges,
                   addedChanges, failed, licenseErrors, unknownLicenses,
                   setFailedCalls, checkCalls, checkRuns, body,
                   checkIdVulnerability, checkIdLicense>>

Reported(report) == \E i \in 1..Len(checkCalls) : checkCalls[i].report = report

\* check.ts's createVulnerabilitiesCheck(addedPackages, failed, severity), its
\* request accepted
TwoPhaseVulnerabilitiesCheckResolves ==
    /\ pc = "reports"
    /\ ~Reported("vulnerabilities")
    /\ body' = check_createVulnerabilitiesCheck(addedChanges, config.fail_on_severity)
    /\ checkCalls' = Append(checkCalls,
           CheckCall("vulnerabilities", "Dependency Review", failed, addedChanges, <<>>))
    /\ checkRuns' = updateCheck(checkRuns, checkIdVulnerability, "Dependency Review", failed)
    /\ pc' = IF Reported("licenses") THEN "done" ELSE "reports"
    /\ UNCHANGED <<eventName, compareCalls, changes, config, filteredChanges,
                   addedChanges, failed, licenseErrors, unknownLicenses,
                   setFailedCalls, fatal, thrownAt, checkIdVulnerability, checkIdLicense>>

\* check.ts's createLicensesCheck(licenseErrors, unknownLicenses, failed, config),
\* its request accepted
TwoPhaseLicensesCheckResolves ==
    /\ pc = "reports"
    /\ ~Reported("licenses")
    /\ body' = createLicensesCheck(licenseErrors, unknownLicenses, config)
    /\ checkCalls' = Append(checkCalls,
           CheckCall("licenses", "Dependency Review", Len(licenseErrors) > 0,
                     licenseErrors, unknownLicenses))
    /\ checkRuns' = updateCheck(checkRuns, checkIdLicense, "Dependency Review",
                                Len(licenseErrors) > 0)
    /\ pc' = IF Reported("vulnerabilities") THEN "done" ELSE "reports"
    /\ UNCHANGED <<eventName, compareCalls, changes, config, filteredChanges,
                   addedChanges, failed, licenseErrors, unknownLicenses,
                   setFailedCalls, fatal, thrownAt, checkIdVulnerability, checkIdLicense>>

\* the request of updateCheck is rejected (it names no repository, no commit
\* and no check name); the report function rejects with it
TwoPhaseVulnerabilitiesCheckRejects ==
    /\ pc = "reports"
    /\ ~Reported("vulnerabilities")
    /\ body' = check_createVulnerabilitiesCheck(addedChanges, config.fail_on_severity)
    /\ checkCalls' = Append(checkCalls,
           CheckCall("vulnerabilities", "Dependency Review", failed, addedChanges, <<>>))
    /\ \E error \in SinkErrors : fatal' = error
    /\ thrownAt' = "vulnerabilitiesCheck"
    /\ pc' = "done"
    /\ UNCHANGED <<eventName, compareCalls, changes, config, filteredChanges,
                   addedChanges, failed, licenseErrors, unknownLicenses,
                   setFailedCalls, checkRuns, checkIdVulnerability, checkIdLicense>>

TwoPhaseLicensesCheckRejects ==
    /\ pc = "reports"
    /\ ~Reported("licenses")
    /\ body' = createLicensesCheck(licenseErrors, unknownLicenses, config)
    /\ checkCalls' = Append(checkCalls,
           CheckCall("licenses", "Dependency Review", Len(licenseErrors) > 0,
                     licenseErrors, unknownLicenses))
    /\ \E error \in SinkErrors : fatal' = error
    /\ thrownAt' = "licensesCheck"
    /\ pc' = "done"
    /\ UNCHANGED <<eventName, compareCalls, changes, config, filteredChanges,
                   addedChanges, failed, licenseErrors, unknownLicenses,
                   setFailedCalls, checkRuns, checkIdVulnerability, checkIdLicense>>

NextChecks ==
    \/ InitChecksVulnerability
    \/ InitChecksLicense
    \/ InitChecksRejects
    \/ TwoPhaseVulnerabilitiesCheckResolves
    \/ TwoPhaseVulnerabilitiesCheckRejects
    \/ TwoPhaseLicensesCheckResolves
    \/ TwoPhaseLicensesCheckRejects

SpecChecks == InitChecks /\ [][NextChecks]_vars

----------------------------------------------------------------------------
(* Claims about the severity filter *)

\* s is strictly below t in low < moderate < high < critical
StrictlyBelow(s, t) ==
    <<s, t>> \in {<<"low", "moderate">>, <<"low", "high">>, <<"low", "critical">>,
                  <<"moderate", "high">>, <<"moderate", "critical">>,
                  <<"high", "critical">>}

\* the vulnerabilities of c that are not strictly below the threshold t, in order
NotBelow(c, t) ==
    SelectSeq(c.vulnerabilities, LAMBDA v : ~StrictlyBelow(v.severity, t))

\* C3: under every threshold low..critical, filterChangesBySeverity keeps every
\* Change without vulnerabilities, keeps of every other Change exactly the
\* vulnerabilities not strictly below the threshold, in their order, and drops
\* a Change only when it had vulnerabilities and all of them are below the
\* threshold; the Changes kept stay in input order.
C3_FilterNarrows ==
    (pc = "filtered" /\ config.fail_on_severity \in Severity) =>
        LET t == config.fail_on_severity
            survivors == SelectSeq(changes,
                LAMBDA c : c.vulnerabilities = <<>> \/ NotBelow(c, t) # <<>>)
        IN  /\ Len(filteredChanges) = Len(survivors)
            /\ \A i \in 1..Len(survivors) :
                   filteredChanges[i] =
                       [survivors[i] EXCEPT !.vulnerabilities = NotBelow(survivors[i], t)]

\* C3 witness: under threshold high, a list holding a Change narrowed from
\* (low, critical) to (critical), a Change without vulnerabilities that is kept
\* and a Change with only a low vulnerability that is dropped
C3_Witness ==
    /\ pc = "filtered"
    /\ config.fail_on_severity = "high"
    /\ Len(changes) = 3
    /\ changes[1].vulnerabilities = <<Vulnerability("low"), Vulnerability("critical")>>
    /\ changes[2].vulnerabilities = <<>>
    /\ changes[3].vulnerabilities = <<Vulnerability("low")>>
    /\ Len(filteredChanges) = 2
    /\ filteredChanges[1].vulnerabilities = <<Vulnerability("critical")>>
    /\ filteredChanges[2] = changes[2]

----------------------------------------------------------------------------
(* Claims about the license classifier *)

C6_DeniedIff ==
    pc = "classified" =>
        \A i \in 1..Len(changes) :
            (changes[i].change_type = "added" /\ changes[i].license # NULL) =>
                LET l == changes[i].license
                    inDeny == config.deny_licenses # {} /\ l \in config.deny_licenses
                    offAllow == config.allow_licenses # {} /\ l \notin config.allow_licenses
                IN  /\ (changes[i] \in Range(licenseErrors)) <=> (inDeny \/ offAllow)
                    /\ (l \in config.deny_licenses /\ l \in config.allow_licenses) =>
                           changes[i] \in Range(licenseErrors)

\* C6 witness: both lists configured, one added Change whose license is in both
\* and is denied, one added Change whose license is allowed and not denied
C6_Witness ==
    /\ pc = "classified"
    /\ config.allow_licenses = {"MIT", "GPL-3.0"}
    /\ config.deny_licenses = {"GPL-3.0"}
    /\ Len(changes) = 2
    /\ changes[1].change_type = "added" /\ changes[1].license = "GPL-3.0"
    /\ changes[2].change_type = "added" /\ changes[2].license = "MIT"
    /\ licenseErrors = <<changes[1]>>

\* C7: no removed Change is in denied or in unknown, whatever its license and
\* whatever the policy.
C7_OnlyAdded ==
    pc = "classified" =>
        \A c \in Range(licenseErrors) \cup Range(unknownLicenses) :
            c.change_type = "added"

\* C7 witness: removed Changes with a denied license and with a null license,
\* and neither output holds anything
C7_Witness ==
    /\ pc = "classified"
    /\ config.deny_licenses = {"GPL-3.0"}
    /\ Len(changes) = 2
    /\ changes[1].change_type = "removed" /\ changes[1].license = "GPL-3.0"
    /\ changes[2].change_type = "removed" /\ changes[2].license = NULL
    /\ licenseErrors = <<>> /\ unknownLicenses = <<>>

----------------------------------------------------------------------------
(* Claims about run() *)

\* the provider returned a change list in this run
ProviderReturned == pc \notin {"start", "compare"} /\ thrownAt \notin {"start", "compare"}

\* the number of calls of the sink for one report
SinkCalls(report) == Cardinality({i \in 1..Len(checkCalls) : checkCalls[i].report = report})

\* C1: a run that reaches its end without a fatal error has called core.setFailed
\* exactly when it found a vulnerable added dependency at or above the threshold
\* (addedChanges is not empty) or a denied license (licenseErrors is not empty);
\* unknown licenses alone do not fail it.
C1_FailureSignal ==
    (pc = "done" /\ fatal = NoError) =>
        /\ (Len(setFailedCalls) > 0) <=> (addedChanges # <<>> \/ licenseErrors # <<>>)
        /\ (addedChanges = <<>> /\ licenseErrors = <<>> /\ unknownLicenses # <<>>) =>
               setFailedCalls = <<>>

\* C1 witness: a finished run whose only finding is an added Change with a null
\* license (its one vulnerability is below the threshold): not failed
C1_Witness ==
    /\ pc = "done" /\ fatal = NoError
    /\ config.fail_on_severity = "critical"
    /\ config.deny_licenses = {"GPL-3.0"}
    /\ Len(changes) = 1
    /\ changes[1].change_type = "added"
    /\ changes[1].license = NULL
    /\ changes[1].vulnerabilities = <<Vulnerability("low")>>
    /\ unknownLicenses = <<changes[1]>>
    /\ setFailedCalls = <<>>

\* C2 as stated: in every run in which the provider returned a change list, the
\* sink has been called exactly once for each report when the run concludes.
C2_BothReportsAlways ==
    (pc = "done" /\ ProviderReturned) =>
        (SinkCalls("vulnerabilities") = 1 /\ SinkCalls("licenses") = 1)

\* C2 amended: in every run in which the provider returned a change list, the
\* sink has been called exactly once for the vulnerability report when the run
\* concludes, and exactly once for the license report unless the creation of the
\* vulnerability check run failed, in which case the license report is never
\* produced; no policy violation changes this.
C2_BothReportsUnlessSinkFails ==
    (pc = "done" /\ ProviderReturned) =>
        /\ SinkCalls("vulnerabilities") = 1
        /\ SinkCalls("licenses") = IF thrownAt = "vulnerabilitiesCheck" THEN 0 ELSE 1
        /\ checkCalls[1].report = "vulnerabilities"

\* C2 witness: a finished run that found a vulnerable package and a denied
\* license and posted both reports
C2_Witness ==
    /\ pc = "done" /\ fatal = NoError
    /\ failed
    /\ licenseErrors # <<>>
    /\ Len(checkCalls) = 2
    /\ checkCalls[1].report = "vulnerabilities"
    /\ checkCalls[2].report = "licenses"
    /\ Len(checkRuns) = 2

\* C4: the list passed to the vulnerability report is the sub-sequence, in input
\* order, of the severity-filtered list whose elements are added and have a
\* non-empty vulnerabilities sequence; no Change without vulnerabilities and no
\* removed Change is in it.
C4_VulnerabilityReportList ==
    ProviderReturned =>
        LET report == checkCalls[1].changes
        IN  /\ checkCalls[1].report = "vulnerabilities"
            /\ report = SelectSeq(filteredChanges,
                   LAMBDA c : c.change_type = "added" /\ c.vulnerabilities # <<>>)
            /\ \A c \in Range(report) :
                   c.change_type = "added" /\ c.vulnerabilities # <<>>

\* C4 witness: under threshold critical, a removed vulnerable Change followed by
\* an added one; the report holds only the added one, narrowed to (critical)
C4_Witness ==
    /\ pc = "vulnerabilitiesCheck"
    /\ config.fail_on_severity = "critical"
    /\ Len(changes) = 2
    /\ changes[1].change_type = "removed"
    /\ changes[1].vulnerabilities = <<Vulnerability("low"), Vulnerability("critical")>>
    /\ changes[2].change_type = "added"
    /\ changes[2].vulnerabilities = <<Vulnerability("low"), Vulnerability("critical")>>
    /\ Len(filteredChanges) = 2
    /\ Len(checkCalls[1].changes) = 1
    /\ checkCalls[1].changes[1].vulnerabilities = <<Vulnerability("critical")>>

\* the message the kind of the caught error calls for
MessageOfKind ==
    CASE fatal = RequestError(404) -> "Dependency review could not obtain dependency data"
      [] fatal = RequestError(403) -> "Dependency review is not supported on this repository"
      [] fatal.class = "NonError" -> "Unexpected fatal error"
      [] OTHER -> fatal.message

\* C9 as stated: over the whole of a run that ended in a fatal error,
\* core.setFailed has been called exactly once.
C9_SingleFailureSignal ==
    (pc = "done" /\ fatal # NoError) => Len(setFailedCalls) = 1

\* C9 amended: every fatal error is caught at the top level of run() and
\* converted into one failure signal whose message is chosen by the kind of the
\* error; it is the last signal of the run, and the only one unless a denied
\* license had been signalled before the creation of the license check run
\* failed, in which case that signal precedes it.
C9_FatalSignalLast ==
    (pc = "done" /\ fatal # NoError) =>
        /\ setFailedCalls =
               (IF licenseErrors # <<>> THEN <<IncompatibleLicenses>> ELSE <<>>)
                   \o <<MessageOfKind>>
        /\ Len(setFailedCalls) = 2 => thrownAt = "licensesCheck"

\* C9 witness: a denied license was signalled, then the creation of the license
\* check run failed with 403: two signals
C9_Witness ==
    /\ pc = "done"
    /\ fatal = RequestError(403)
    /\ thrownAt = "licensesCheck"
    /\ licenseErrors # <<>>
    /\ Len(setFailedCalls) = 2

\* C10: in a run triggered by any event other than pull_request, the provider is
\* never called and no report is posted; the run ends failed with the message
\* about the unsupported event.
C10_UnsupportedEvent ==
    eventName # "pull_request" =>
        /\ compareCalls = 0
        /\ checkCalls = <<>>
        /\ checkRuns = <<>>
        /\ pc \in {"start", "done"}
        /\ pc = "done" =>
               /\ fatal = UnsupportedEventError
               /\ setFailedCalls = <<UnsupportedEventError.message>>

\* C10 witness: a run triggered by push has ended
C10_Witness ==
    /\ eventName = "push"
    /\ pc = "done"
    /\ thrownAt = "start"
    /\ Len(setFailedCalls) = 1

----------------------------------------------------------------------------
(* Claims about the posted check runs *)

\* C13: every posted check run is completed and carries the outcome of its own
\* report: the vulnerability check run concludes failure exactly when the list
\* of vulnerable added dependencies is not empty, the license check run exactly
\* when the list of denied licenses is not empty, and success otherwise; unknown
\* licenses and the other report's violation do not change it.
C13_OwnConclusion ==
    \A i \in 1..Len(checkRuns) :
        /\ checkRuns[i].status = "completed"
        /\ checkRuns[i].name \in {"Dependency Review Vulnerabilities",
                                  "Dependency Review Licenses"}
        /\ checkRuns[i].name = "Dependency Review Vulnerabilities" =>
               checkRuns[i].conclusion =
                   IF addedChanges # <<>> THEN "failure" ELSE "success"
        /\ checkRuns[i].name = "Dependency Review Licenses" =>
               checkRuns[i].conclusion =
                   IF licenseErrors # <<>> THEN "failure" ELSE "success"

\* C13 witness: a vulnerable package, no denied license and an unknown license:
\* the vulnerability check run fails and the license check run succeeds
C13_Witness ==
    /\ pc = "done" /\ fatal = NoError
    /\ addedChanges # <<>>
    /\ licenseErrors = <<>>
    /\ unknownLicenses # <<>>
    /\ Len(checkRuns) = 2
    /\ checkRuns[1].name = "Dependency Review Vulnerabilities"
    /\ checkRuns[1].conclusion = "failure"
    /\ checkRuns[2].name = "Dependency Review Licenses"
    /\ checkRuns[2].conclusion = "success"

----------------------------------------------------------------------------
(* Claims about the report renderers *)

\* the manifest names of the section headings of a rendered text, in order
SectionManifests(lines) ==
    LET heads == SelectSeq(lines, LAMBDA l : l.kind = "manifest")
    IN  [k \in 1..Len(heads) |-> heads[k].manifest]

\* the rows a rendered text shows in a section of manifest m, in order
SectionRows(lines, m) ==
    LET under(i) ==
            /\ lines[i].kind = "row"
            /\ \E j \in 1..(i - 1) :
                   /\ lines[j].kind = "manifest" /\ lines[j].manifest = m
                   /\ \A k \in (j + 1)..(i - 1) : lines[k].kind # "manifest"
        at == SelectSeq([i \in 1..Len(lines) |-> i], under)
    IN  [k \in 1..Len(at) |-> lines[at[k]]]

\* the distinct manifest names of cs in the order of their first occurrence
FirstManifests(cs) ==
    LET first == SelectSeq([i \in 1..Len(cs) |-> i],
                     LAMBDA i : \A j \in 1..(i - 1) : cs[j].manifest # cs[i].manifest)
    IN  [k \in 1..Len(first) |-> cs[first[k]].manifest]

RECURSIVE Flatten(_)
Flatten(ss) == IF ss = <<>> THEN <<>> ELSE Head(ss) \o Flatten(Tail(ss))

\* what the section of manifest m is to show for cs: one entry per vulnerability
\* of each Change of that manifest, Changes and vulnerabilities in input order
OwnedVulnerabilities(cs, m) ==
    LET own == SelectSeq(cs, LAMBDA c : c.manifest = m)
    IN  Flatten([k \in 1..Len(own) |->
                    [v \in 1..Len(own[k].vulnerabilities) |->
                        [owner |-> own[k], severity |-> own[k].vulnerabilities[v].severity]]])

\* every row of a rendered text stands under a section heading
RowsInSections(lines) ==
    \A i \in 1..Len(lines) :
        lines[i].kind = "row" => \E j \in 1..(i - 1) : lines[j].kind = "manifest"

\* a rendered vulnerability text has one section per manifest of cs, in first
\* occurrence order, each showing the vulnerabilities of its own Changes
VulnerabilitySectionsOf(lines, cs) ==
    /\ SectionManifests(lines) = FirstManifests(cs)
    /\ RowsInSections(lines)
    /\ \A m \in Range(FirstManifests(cs)) :
           LET rows == SectionRows(lines, m)
               owned == OwnedVulnerabilities(cs, m)
           IN  /\ Len(rows) = Len(owned)
               /\ \A r \in 1..Len(rows) :
                      /\ rows[r].severity = owned[r].severity
                      /\ rows[r].package \in {"", owned[r].owner.name}
                      /\ rows[r].version \in {"", owned[r].owner.version}

\* a rendered license table has one section per manifest of cs, in first
\* occurrence order, each showing its own Changes in input order
LicenseSectionsOf(lines, cs) ==
    /\ SectionManifests(lines) = FirstManifests(cs)
    /\ RowsInSections(lines)
    /\ \A m \in Range(FirstManifests(cs)) :
           LET rows == SectionRows(lines, m)
               own == SelectSeq(cs, LAMBDA c : c.manifest = m)
           IN  /\ Len(rows) = Len(own)
               /\ \A r \in 1..Len(rows) :
                      /\ rows[r].package = own[r].name
                      /\ rows[r].version = own[r].version
                      /\ rows[r].license = own[r].license

\* the lines of a license text before its 'Unknown Licenses' heading
BeforeUnknown(lines) ==
    SelectSeq([i \in 1..Len(lines) |-> i],
        LAMBDA i : \A j \in 1..i :
            ~(lines[j].kind = "heading" /\ lines[j].text = "Unknown Licenses"))

\* C11: the rendered report has exactly one section per distinct manifest of the
\* list it is given, in the order of first occurrence; every Change is shown in
\* the section of its own manifest and in no other, in input order.  For the
\* license report this holds of each of its two tables.
C11_SectionsByManifest ==
    /\ (pc = "vulnerabilitiesCheck" /\ Len(checkCalls) = 1) =>
           VulnerabilitySectionsOf(body, addedChanges)
    /\ (pc = "licensesCheck" /\ Len(checkCalls) = 1) =>
           LET cut == Len(BeforeUnknown(body))
           IN  /\ LicenseSectionsOf(SubSeq(body, 1, cut), licenseErrors)
               /\ LicenseSectionsOf(SubSeq(body, cut + 1, Len(body)), unknownLicenses)

\* C11 witness: Changes of package.json, requirements.txt and package.json again:
\* two sections, the first holding the rows of the first and the third Change
C11_Witness ==
    /\ pc = "vulnerabilitiesCheck"
    /\ Len(addedChanges) = 3
    /\ addedChanges[1].manifest = "package.json"
    /\ addedChanges[1].vulnerabilities = <<Vulnerability("low")>>
    /\ addedChanges[2].manifest = "requirements.txt"
    /\ addedChanges[3].manifest = "package.json"
    /\ addedChanges[3].name # addedChanges[1].name
    /\ addedChanges[3].vulnerabilities = <<Vulnerability("high"), Vulnerability("critical")>>
    /\ SectionManifests(body) = <<"package.json", "requirements.txt">>
    /\ Len(SectionRows(body, "package.json")) = 3

\* C12 as stated: within one manifest section a row shows the package name and
\* version exactly when it is the first of a run of consecutive rows that belong
\* to the same (name, version); so the rows of a second Change with the same
\* (name, version) do not repeat them.
C12_PackageShownOncePerRun ==
    (pc = "vulnerabilitiesCheck" /\ Len(checkCalls) = 1) =>
        \A m \in Range(FirstManifests(addedChanges)) :
            LET rows == SectionRows(body, m)
                owned == OwnedVulnerabilities(addedChanges, m)
                startsRun(r) ==
                    \/ r = 1
                    \/ owned[r - 1].owner.name # owned[r].owner.name
                    \/ owned[r - 1].owner.version # owned[r].owner.version
            IN  \A r \in 1..Len(rows) :
                    IF startsRun(r)
                    THEN /\ rows[r].package = owned[r].owner.name
                         /\ rows[r].version = owned[r].owner.version
                    ELSE rows[r].package = "" /\ rows[r].version = ""

----------------------------------------------------------------------------
(* Claims about the two-phase check protocol *)

\* the report function has been called and has returned
Returned(report) == Reported(report) /\ fatal = NoError

\* C14 as stated: createVulnerabilitiesCheck brings the check run with the
\* stored vulnerability id to completed, createLicensesCheck the check run with
\* the stored license id; once both have returned no check run that initChecks
\* created is in_progress and no further check run has been created.
C14_TwoPhaseCompletes ==
    /\ Returned("vulnerabilities") =>
           checkRuns[checkIdVulnerability].status = "completed"
    /\ Returned("licenses") =>
           checkRuns[checkIdLicense].status = "completed"
    /\ (Returned("vulnerabilities") /\ Returned("licenses")) =>
           /\ \A i \in {checkIdVulnerability, checkIdLicense} :
                  checkRuns[i].status # "in_progress"
           /\ Len(checkRuns) = checkIdLicense

====
